---------------------------- MODULE Spec2Model ----------------------------
(***************************************************************************)
(* The two browser-automation scripts of jules-scratch/verification:       *)
(* verify_changes.py (the clinic-flow verifier) and verify_superadmin.py   *)
(* (the super-admin verifier).  Each script is a straight sequence of      *)
(* Playwright calls with two `if` branches and one try/except; it is       *)
(* written here as a table of instructions, one per statement, which an    *)
(* interpreter runs against a page of the application under test.  The     *)
(* application is external to the repository: its data (appointments,     *)
(* medicines, suppliers, batches), the moment at which it renders fetched  *)
(* data, the way it titles a batch's delete control and whether it is      *)
(* healthy are left open, within the bounds below.                         *)
(***************************************************************************)
EXTENDS Integers, Sequences, FiniteSets, TLC

\* Bounds of the application data and of the console traffic.
MaxAppointments == 1
MaxMedicines == 2
MaxSuppliers == 1
MaxConsole == 2

Scripts == {"clinic", "superadmin"}

\* ------------------------------------------------------------------ text

UpperCase == "ABCDEFGHIJKLMNOPQRSTUVWXYZ"
LowerCase == "abcdefghijklmnopqrstuvwxyz"

LowerChar(c) ==
    IF \E i \in 1..Len(UpperCase) : SubSeq(UpperCase, i, i) = c
    THEN LET i == CHOOSE k \in 1..Len(UpperCase) : SubSeq(UpperCase, k, k) = c
         IN  SubSeq(LowerCase, i, i)
    ELSE c

RECURSIVE Lower(_)
Lower(s) ==
    IF Len(s) = 0 THEN ""
    ELSE LowerChar(SubSeq(s, 1, 1)) \o Lower(SubSeq(s, 2, Len(s)))

\* JavaScript's String.prototype.includes: a case-sensitive substring test.
Includes(hay, needle) ==
    \E i \in 1..(Len(hay) - Len(needle) + 1) :
        SubSeq(hay, i, i + Len(needle) - 1) = needle

\* Playwright's default (exact=False) text match of get_by_title and of the
\* 'text=' selector: a case-insensitive substring test.
TextMatch(hay, needle) == Includes(Lower(hay), Lower(needle))

\* ------------------------------------------------------------ the scripts

\* One statement of a script.  op is the Playwright call, a and b its
\* literal arguments, line its line in the source file.  catch, skip and
\* body give the control flow of the statement, as offsets:
\*   catch > 0   the statement is the body of a try whose handler starts
\*               catch instructions further on; skip is the length of that
\*               handler, jumped over when the statement succeeds;
\*   body > 0    the statement is an `if` whose block has body
\*               instructions.
Ins(op, a, b, line) ==
    [op |-> op, a |-> a, b |-> b, line |-> line,
     catch |-> 0, skip |-> 0, body |-> 0]

Try(op, a, b, line, handlerLen) ==
    [op |-> op, a |-> a, b |-> b, line |-> line,
     catch |-> 1, skip |-> handlerLen, body |-> 0]

If(op, a, b, line, bodyLen) ==
    [op |-> op, a |-> a, b |-> b, line |-> line,
     catch |-> 0, skip |-> 0, body |-> bodyLen]

BatchNumber == "DELETE_TEST_123"
DeleteTitle == "Delete batch DELETE_TEST_.123"

\* ClinicLogin with the dashboard wait outside any try: its timeout leaves run().
ClinicLoginUncaught ==
    << Ins("launch", "chromium", "", 6),
       Ins("new_page", "", "", 7),
       Ins("on_console", "console", "", 10),
       Ins("goto", "/", "", 13),
       Ins("wait_load", "", "", 14),
       Ins("screenshot", "login_page.png", "", 15),
       Ins("fill", "Email address", "test@test.com", 16),
       Ins("fill", "Password", "password", 17),
       Ins("click", "Sign in", "", 18),
       Ins("wait_url", "/clinic-dashboard", "", 20),
       Ins("print_error", "Error waiting for dashboard", "", 22),
       Ins("screenshot", "after_login_attempt.png", "", 23) >>

\* verify_changes.py, lines 6-23: launch, login, lenient dashboard wait.
ClinicLogin ==
    << Ins("launch", "chromium", "", 6),
       Ins("new_page", "", "", 7),
       Ins("on_console", "console", "", 10),
       Ins("goto", "/", "", 13),
       Ins("wait_load", "", "", 14),
       Ins("screenshot", "login_page.png", "", 15),
       Ins("fill", "Email address", "test@test.com", 16),
       Ins("fill", "Password", "password", 17),
       Ins("click", "Sign in", "", 18),
       Try("wait_url", "/clinic-dashboard", "", 20, 2),
       Ins("print_error", "Error waiting for dashboard", "", 22),
       Ins("screenshot", "after_login_attempt.png", "", 23) >>

\* ClinicVitals with the screenshot taken before the wait for 'Vitals Added'.
ClinicVitalsShotFirst ==
    << Ins("goto", "/appointments", "", 26),
       Ins("wait_text", "Appointments", "", 27),
       Ins("click", "Add Vitals", "", 31),
       Ins("fill", "Blood Pressure (systolic/diastolic)", "120/80", 32),
       Ins("click", "Save", "", 33),
       Ins("screenshot", "vitals_added.png", "", 35),
       Ins("wait_text", "Vitals Added", "", 34) >>

\* verify_changes.py, lines 26-35: appointments view and vitals.
ClinicVitals ==
    << Ins("goto", "/appointments", "", 26),
       Ins("wait_text", "Appointments", "", 27),
       Ins("click", "Add Vitals", "", 31),
       Ins("fill", "Blood Pressure (systolic/diastolic)", "120/80", 32),
       Ins("click", "Save", "", 33),
       Ins("wait_text", "Vitals Added", "", 34),
       Ins("screenshot", "vitals_added.png", "", 35) >>

\* ClinicMedicine with the check of line 42 written `count() <= 1`.
ClinicMedicineOffByOne ==
    << Ins("goto", "/medicines", "", 38),
       Ins("wait_text", "Medicines", "", 39),
       If("if_count_le", "Manage Stock", 1, 42, 5),
       Ins("click", "Add New Medicine", "", 44),
       Ins("fill", "Name", "Test Medicine", 45),
       Ins("fill", "Manufacturer", "Test Manufacturer", 46),
       Ins("click", "Save", "", 47),
       Ins("wait_text", "Test Medicine", "", 48),
       Ins("click", "Manage Stock", "", 52),
       Ins("fill", "Batch Number", BatchNumber, 55) >>

\* verify_changes.py, lines 38-55: medicines view, conditional creation of
\* a medicine, stock management, batch number.
ClinicMedicine ==
    << Ins("goto", "/medicines", "", 38),
       Ins("wait_text", "Medicines", "", 39),
       If("if_count_le", "Manage Stock", 0, 42, 5),
       Ins("click", "Add New Medicine", "", 44),
       Ins("fill", "Name", "Test Medicine", 45),
       Ins("fill", "Manufacturer", "Test Manufacturer", 46),
       Ins("click", "Save", "", 47),
       Ins("wait_text", "Test Medicine", "", 48),
       Ins("click", "Manage Stock", "", 52),
       Ins("fill", "Batch Number", BatchNumber, 55) >>

\* ClinicSupplier with the check of line 58 written `count() == 0`, the
\* placeholder option forgotten.
ClinicSupplierNoPlaceholder ==
    << If("if_count_le", "supplierId option", 0, 58, 13),
       Ins("goto", "/suppliers", "", 60),
       Ins("wait_text", "Suppliers", "", 61),
       Ins("click", "Add New Supplier", "", 62),
       Ins("fill", "Name", "Test Supplier", 63),
       Ins("fill", "Contact Person", "Test Person", 64),
       Ins("fill", "Email", "test@supplier.com", 65),
       Ins("fill", "Phone", "1234567890", 66),
       Ins("click", "Save", "", 67),
       Ins("wait_text", "Test Supplier", "", 68),
       Ins("goto", "/medicines", "", 69),
       Ins("wait_text", "Medicines", "", 70),
       Ins("click", "Manage Stock", "", 72),
       Ins("fill", "Batch Number", BatchNumber, 73) >>

\* ClinicSupplier without line 73: the batch number is not entered again
\* after stock management is reopened.
ClinicSupplierNoRefill ==
    << If("if_count_le", "supplierId option", 1, 58, 12),
       Ins("goto", "/suppliers", "", 60),
       Ins("wait_text", "Suppliers", "", 61),
       Ins("click", "Add New Supplier", "", 62),
       Ins("fill", "Name", "Test Supplier", 63),
       Ins("fill", "Contact Person", "Test Person", 64),
       Ins("fill", "Email", "test@supplier.com", 65),
       Ins("fill", "Phone", "1234567890", 66),
       Ins("click", "Save", "", 67),
       Ins("wait_text", "Test Supplier", "", 68),
       Ins("goto", "/medicines", "", 69),
       Ins("wait_text", "Medicines", "", 70),
       Ins("click", "Manage Stock", "", 72) >>

\* verify_changes.py, lines 58-73: conditional creation of a supplier.
ClinicSupplier ==
    << If("if_count_le", "supplierId option", 1, 58, 13),
       Ins("goto", "/suppliers", "", 60),
       Ins("wait_text", "Suppliers", "", 61),
       Ins("click", "Add New Supplier", "", 62),
       Ins("fill", "Name", "Test Supplier", 63),
       Ins("fill", "Contact Person", "Test Person", 64),
       Ins("fill", "Email", "test@supplier.com", 65),
       Ins("fill", "Phone", "1234567890", 66),
       Ins("click", "Save", "", 67),
       Ins("wait_text", "Test Supplier", "", 68),
       Ins("goto", "/medicines", "", 69),
       Ins("wait_text", "Medicines", "", 70),
       Ins("click", "Manage Stock", "", 72),
       Ins("fill", "Batch Number", BatchNumber, 73) >>

\* verify_changes.py, lines 76-96: the batch form, the deletion, the end.
\* (The two rate labels end in a currency sign in the source, "... / Pack (INR sign)";
\* it is left out of the label names here.)
ClinicBatch ==
    << Ins("select_index", "Supplier", 1, 76),
       Ins("fill", "Expiry Date", "2025-12-31", 77),
       Ins("fill", "Number of Packs", "10", 78),
       Ins("fill", "Units per Pack", "10", 79),
       Ins("fill", "Purchase Rate / Pack", "100", 80),
       Ins("fill", "MRP / Pack", "120", 81),
       Ins("click", "Add Batch", "", 82),
       Ins("wait_text", BatchNumber, "", 83),
       Ins("click_title", DeleteTitle, "", 87),
       Ins("click", "Confirm", "", 90),
       Ins("wait_gone", BatchNumber, "", 92),
       Ins("screenshot", "batch_deleted.png", "", 94),
       Ins("close", "", "", 96) >>

ClinicProgram ==
    ClinicLogin \o ClinicVitals \o ClinicMedicine \o ClinicSupplier \o ClinicBatch

\* verify_superadmin.py, lines 5-20.
SuperadminProgram ==
    << Ins("launch", "chromium", "", 5),
       Ins("new_page", "", "", 6),
       Ins("goto", "/superadmin/login", "", 9),
       Ins("wait_load", "", "", 10),
       Ins("fill", "Email", "superadmin@medzillo.com", 11),
       Ins("fill", "Password", "password", 12),
       Ins("click", "Login", "", 13),
       Ins("wait_url", "/superadmin/dashboard", "", 14),
       Ins("wait_text", "Total Clinics", "", 17),
       Ins("screenshot", "superadmin_dashboard.png", "", 18),
       Ins("close", "", "", 20) >>

Program(s) == IF s = "clinic" THEN ClinicProgram ELSE SuperadminProgram

\* ---------------------------------------------------------------- state

VARIABLES
    script,       \* the script this run executes
    pc,           \* index in Program(script) of the next statement
    status,       \* "running", "done" (fell off the end), "aborted" (unhandled exception)
    browser,      \* "none", "open", "closed" (browser.close() returned)
    listener,     \* whether page.on("console", ...) has been registered
    page,         \* the page: view, dialog, form, rendered data
    session,      \* the account logged in on the page's browser context
    shots,        \* the screenshot files written
    out,          \* the script's output stream: error lines, console lines
    emitted,      \* console messages the page has emitted
    failures,     \* the statements (indices) that raised, in order
    log,          \* the statements that succeeded, as <<event, argument>>
    counts,       \* the element counts the `if` statements observed
    medicines,    \* application: the medicines, in list order
    suppliers,    \* application: the suppliers, in list order
    batches,      \* application: batch numbers of the first medicine
    appointments, \* application: the appointments listed
    vitalsDone,   \* application: how many of them have vitals
    created,      \* application: entities created during the run
    faulty,       \* application: whether it may fail to respond in time
    titleStyle    \* application: how a delete control's title renders the batch

vars ==
    << script, pc, status, browser, listener, page, session, shots, out, emitted,
       failures, log, counts, medicines, suppliers, batches, appointments,
       vitalsDone, created, faulty, titleStyle >>

scriptVars ==
    << script, pc, status, browser, listener, shots, out, failures, log, counts >>

appVars ==
    << medicines, suppliers, batches, appointments, vitalsDone, created >>

envVars == << faulty, titleStyle >>

\* ---------------------------------------------------- the page under test

Labels ==
    { "Email address", "Password", "Email", "Blood Pressure (systolic/diastolic)",
      "Name", "Manufacturer", "Batch Number", "Supplier", "Contact Person",
      "Phone", "Expiry Date", "Number of Packs", "Units per Pack",
      "Purchase Rate / Pack", "MRP / Pack" }

EmptyForm == [l \in Labels |-> ""]

NothingShown ==
    [appointments |-> 0, vitalsDone |-> 0, medicines |-> <<>>,
     suppliers |-> <<>>, batches |-> {}, summary |-> FALSE]

BlankPage ==
    [view |-> "about:blank", dialog |-> "none", form |-> EmptyForm,
     settled |-> TRUE, shown |-> NothingShown, target |-> ""]

Range(f) == {f[i] : i \in DOMAIN f}

\* The form fields the page offers, by accessible label or placeholder.
Fields(pg) ==
    CASE pg.dialog = "vitals" -> {"Blood Pressure (systolic/diastolic)"}
      [] pg.dialog = "medicine" -> {"Name", "Manufacturer"}
      [] pg.dialog = "supplier" -> {"Name", "Contact Person", "Email", "Phone"}
      [] pg.dialog = "stock" ->
            {"Batch Number", "Supplier", "Expiry Date", "Number of Packs",
             "Units per Pack", "Purchase Rate / Pack", "MRP / Pack"}
      [] pg.dialog = "none" /\ pg.view = "/" -> {"Email address", "Password"}
      [] pg.dialog = "none" /\ pg.view = "/superadmin/login" -> {"Email", "Password"}
      [] OTHER -> {}

\* How many elements a locator resolves to on the page as rendered now.
Count(pg, locator) ==
    CASE locator = "Manage Stock" ->
            IF pg.view = "/medicines" /\ pg.dialog = "none"
            THEN Len(pg.shown.medicines) ELSE 0
      [] locator = "supplierId option" ->
            IF pg.dialog = "stock" THEN 1 + Len(pg.shown.suppliers) ELSE 0
      [] locator = "Add Vitals" ->
            IF pg.view = "/appointments" /\ pg.dialog = "none"
            THEN pg.shown.appointments - pg.shown.vitalsDone ELSE 0
      [] locator = "Sign in" -> IF pg.view = "/" THEN 1 ELSE 0
      [] locator = "Login" -> IF pg.view = "/superadmin/login" THEN 1 ELSE 0
      [] locator = "Add New Medicine" ->
            IF pg.view = "/medicines" /\ pg.dialog = "none" THEN 1 ELSE 0
      [] locator = "Add New Supplier" ->
            IF pg.view = "/suppliers" /\ pg.dialog = "none" THEN 1 ELSE 0
      [] locator = "Save" ->
            IF pg.dialog \in {"vitals", "medicine", "supplier"} THEN 1 ELSE 0
      [] locator = "Add Batch" -> IF pg.dialog = "stock" THEN 1 ELSE 0
      [] locator = "Confirm" -> IF pg.dialog = "confirm" THEN 1 ELSE 0
      [] OTHER -> 0

\* The text rendered on the page (document.body.innerText, piecewise).
PageTexts(pg) ==
    (CASE pg.view = "/appointments" -> {"Appointments"}
       [] pg.view = "/medicines" -> {"Medicines"}
       [] pg.view = "/suppliers" -> {"Suppliers"}
       [] OTHER -> {})
    \cup (IF pg.view = "/appointments" /\ pg.shown.vitalsDone > 0
          THEN {"Vitals Added"} ELSE {})
    \cup (IF pg.view = "/medicines" THEN Range(pg.shown.medicines) ELSE {})
    \cup (IF pg.view = "/suppliers" THEN Range(pg.shown.suppliers) ELSE {})
    \cup (IF pg.dialog \in {"stock", "confirm"} THEN pg.shown.batches ELSE {})
    \cup (IF pg.view = "/superadmin/dashboard" /\ pg.shown.summary
          THEN {"Total Clinics"} ELSE {})

\* The application's rendering of a batch number inside a title: verbatim,
\* or with a "." set after the last "_".
Punctuate(b) ==
    LET us == {i \in 1..Len(b) : SubSeq(b, i, i) = "_"}
    IN  IF us = {} THEN b
        ELSE LET i == CHOOSE k \in us : \A j \in us : j <= k
             IN  SubSeq(b, 1, i) \o "." \o SubSeq(b, i + 1, Len(b))

Title(b) ==
    "Delete batch " \o (IF titleStyle = "literal" THEN b ELSE Punctuate(b))

\* The batches whose delete control get_by_title(title) resolves to.
Resolve(pg, title) ==
    IF pg.dialog = "stock"
    THEN {b \in pg.shown.batches : TextMatch(Title(b), title)}
    ELSE {}

\* What the application shows once its fetched data is rendered.
Snapshot ==
    [appointments |-> appointments, vitalsDone |-> vitalsDone,
     medicines |-> medicines, suppliers |-> suppliers, batches |-> batches,
     summary |-> TRUE]

\* The route a URL lands on: every view but the login pages needs a session.
Route(url) ==
    CASE url \in {"/", "/superadmin/login"} -> url
      [] url = "/superadmin/dashboard" ->
            IF session = "superadmin" THEN url ELSE "/superadmin/login"
      [] OTHER -> IF session = "clinic" THEN url ELSE "/"

\* -------------------------------------------------------- the interpreter

Cur == Program(script)[pc]

Running == status = "running" /\ pc \in 1..Len(Program(script))

\* Whether the current statement's call can return now: the element it acts
\* on is there, the condition it waits for holds.
Ready(ins) ==
    CASE ins.op = "launch" -> browser = "none"
      [] ins.op \in {"new_page", "goto", "wait_load", "screenshot", "close"} ->
            browser = "open"
      [] ins.op = "fill" -> ins.a \in Fields(page)
      [] ins.op = "click" -> Count(page, ins.a) >= 1
      [] ins.op = "wait_url" -> page.view = ins.a
      [] ins.op = "wait_text" -> \E x \in PageTexts(page) : TextMatch(x, ins.a)
      [] ins.op = "wait_gone" -> ~ \E x \in PageTexts(page) : Includes(x, ins.a)
      [] ins.op = "select_index" ->
            ins.a \in Fields(page) /\ Count(page, "supplierId option") > ins.b
      [] ins.op = "click_title" -> Cardinality(Resolve(page, ins.a)) = 1
      [] OTHER -> TRUE

\* The statement returned: go on with the next one, past a try's handler.
Advance(n) ==
    /\ pc' = pc + n
    /\ status' = IF pc + n > Len(Program(script)) THEN "done" ELSE "running"

Succeed(ev) ==
    /\ Advance(1 + Cur.skip)
    /\ log' = Append(log, <<ev, Cur.a>>)

Step(op) == Running /\ Cur.op = op /\ Ready(Cur)

Launch ==
    /\ Step("launch")
    /\ browser' = "open"
    /\ Succeed("launch")
    /\ UNCHANGED << script, listener, page, session, shots, out, emitted,
                    failures, counts, appVars, envVars >>

NewPage ==
    /\ Step("new_page")
    /\ page' = BlankPage
    /\ Succeed("new_page")
    /\ UNCHANGED << script, browser, listener, session, shots, out, emitted,
                    failures, counts, appVars, envVars >>

\* OnConsole that registers nothing.
OnConsoleUnregistered ==
    /\ Step("on_console")
    /\ listener' = FALSE
    /\ Succeed("on")
    /\ UNCHANGED << script, browser, page, session, shots, out, emitted,
                    failures, counts, appVars, envVars >>

OnConsole ==
    /\ Step("on_console")
    /\ listener' = TRUE
    /\ Succeed("on")
    /\ UNCHANGED << script, browser, page, session, shots, out, emitted,
                    failures, counts, appVars, envVars >>

Goto ==
    /\ Step("goto")
    /\ page' = [BlankPage EXCEPT !.view = Route(Cur.a), !.settled = FALSE]
    /\ Succeed("goto")
    /\ UNCHANGED << script, browser, listener, session, shots, out, emitted,
                    failures, counts, appVars, envVars >>

WaitLoad ==
    /\ Step("wait_load")
    /\ Succeed("load")
    /\ UNCHANGED << script, browser, listener, page, session, shots, out,
                    emitted, failures, counts, appVars, envVars >>

Screenshot ==
    /\ Step("screenshot")
    /\ shots' = shots \cup {Cur.a}
    /\ Succeed("shot")
    /\ UNCHANGED << script, browser, listener, page, session, out, emitted,
                    failures, counts, appVars, envVars >>

Fill ==
    /\ Step("fill")
    /\ page' = [page EXCEPT !.form[Cur.a] = Cur.b]
    /\ Succeed("fill")
    /\ UNCHANGED << script, browser, listener, session, shots, out, emitted,
                    failures, counts, appVars, envVars >>

WaitUrl ==
    /\ Step("wait_url")
    /\ Succeed("url")
    /\ UNCHANGED << script, browser, listener, page, session, shots, out,
                    emitted, failures, counts, appVars, envVars >>

WaitText ==
    /\ Step("wait_text")
    /\ Succeed("saw")
    /\ UNCHANGED << script, browser, listener, page, session, shots, out,
                    emitted, failures, counts, appVars, envVars >>

WaitGone ==
    /\ Step("wait_gone")
    /\ Succeed("gone")
    /\ UNCHANGED << script, browser, listener, page, session, shots, out,
                    emitted, failures, counts, appVars, envVars >>

\* `if locator.count() <= n:` one count of the page as rendered now, no wait.
IfCount ==
    /\ Step("if_count_le")
    /\ LET n == Count(page, Cur.a)
       IN  /\ counts' = Append(counts, <<Cur.a, n>>)
           /\ Advance(IF n <= Cur.b THEN 1 ELSE 1 + Cur.body)
    /\ log' = Append(log, <<"count", Cur.a>>)
    /\ UNCHANGED << script, browser, listener, page, session, shots, out,
                    emitted, failures, appVars, envVars >>

SelectIndex ==
    /\ Step("select_index")
    /\ page' = [page EXCEPT !.form[Cur.a] = page.shown.suppliers[Cur.b]]
    /\ Succeed("select")
    /\ UNCHANGED << script, browser, listener, session, shots, out, emitted,
                    failures, counts, appVars, envVars >>

ClickTitle ==
    /\ Step("click_title")
    /\ page' = [page EXCEPT !.dialog = "confirm",
                            !.target = CHOOSE b \in Resolve(page, Cur.a) : TRUE]
    /\ Succeed("click_title")
    /\ UNCHANGED << script, browser, listener, session, shots, out, emitted,
                    failures, counts, appVars, envVars >>

PrintError ==
    /\ Step("print_error")
    /\ out' = [out EXCEPT !.errors = @ + 1]
    /\ Succeed("print")
    /\ UNCHANGED << script, browser, listener, page, session, shots, emitted,
                    failures, counts, appVars, envVars >>

Close ==
    /\ Step("close")
    /\ browser' = "closed"
    /\ Succeed("close")
    /\ UNCHANGED << script, listener, page, session, shots, out, emitted,
                    failures, counts, appVars, envVars >>

\* The application's reaction to a click.  A form is accepted when every
\* field of its dialog is filled; a login when the credentials are those of
\* the seeded account.
Filled == \A l \in Fields(page) : page.form[l] # ""

ClinicLoginOk ==
    page.form["Email address"] = "test@test.com" /\ page.form["Password"] = "password"

SuperadminLoginOk ==
    page.form["Email"] = "superadmin@medzillo.com" /\ page.form["Password"] = "password"

Landed(view) == [BlankPage EXCEPT !.view = view, !.settled = FALSE]

Opened(dialog) == [page EXCEPT !.dialog = dialog, !.form = EmptyForm]

Saves(dialog) == Cur.a = "Save" /\ page.dialog = dialog /\ Filled

ClickPage(b) ==
    CASE b = "Sign in" -> IF ClinicLoginOk THEN Landed("/clinic-dashboard") ELSE page
      [] b = "Login" ->
            IF SuperadminLoginOk THEN Landed("/superadmin/dashboard") ELSE page
      [] b = "Add Vitals" -> Opened("vitals")
      [] b = "Add New Medicine" -> Opened("medicine")
      [] b = "Add New Supplier" -> Opened("supplier")
      [] b = "Manage Stock" ->
            [Opened("stock") EXCEPT !.settled = FALSE,
                                    !.shown.suppliers = <<>>,
                                    !.shown.batches = {}]
      [] b = "Save" ->
            IF Filled THEN [Opened("none") EXCEPT !.settled = FALSE] ELSE page
      [] b = "Add Batch" ->
            IF Filled THEN [Opened("stock") EXCEPT !.settled = FALSE] ELSE page
      [] b = "Confirm" ->
            [page EXCEPT !.dialog = "stock", !.target = "", !.settled = FALSE]
      [] OTHER -> page

Click ==
    /\ Step("click")
    /\ page' = ClickPage(Cur.a)
    /\ session' =
          CASE Cur.a = "Sign in" /\ ClinicLoginOk -> "clinic"
            [] Cur.a = "Login" /\ SuperadminLoginOk -> "superadmin"
            [] OTHER -> session
    /\ vitalsDone' = IF Saves("vitals") THEN vitalsDone + 1 ELSE vitalsDone
    /\ medicines' =
          IF Saves("medicine") THEN Append(medicines, page.form["Name"])
          ELSE medicines
    /\ suppliers' =
          IF Saves("supplier") THEN Append(suppliers, page.form["Name"])
          ELSE suppliers
    /\ batches' =
          CASE Cur.a = "Add Batch" /\ Filled -> batches \cup {page.form["Batch Number"]}
            [] Cur.a = "Confirm" -> batches \ {page.target}
            [] OTHER -> batches
    /\ created' =
          CASE Saves("medicine") -> Append(created, <<"medicine", page.form["Name"]>>)
            [] Saves("supplier") -> Append(created, <<"supplier", page.form["Name"]>>)
            [] Cur.a = "Add Batch" /\ Filled ->
                  Append(created, <<"batch", page.form["Batch Number"]>>)
            [] OTHER -> created
    /\ Succeed("click")
    /\ UNCHANGED << script, browser, listener, shots, out, emitted, failures,
                    counts, appointments, envVars >>

\* A call raises: a timeout because what it waits for is not there once the
\* page has rendered all it has, or because the application does not answer.
\* Inside the try the handler runs next; anywhere else the exception leaves
\* run().
Fallible(ins) == ins.op \notin {"on_console", "print_error"}

\* Fail with every exception swallowed: the run goes on with the next statement.
FailSwallowed ==
    /\ Running
    /\ Fallible(Cur)
    /\ faulty \/ (page.settled /\ ~Ready(Cur))
    /\ failures' = Append(failures, pc)
    /\ Advance(1)
    /\ UNCHANGED << script, browser, listener, page, session, shots, out,
                    emitted, log, counts, appVars, envVars >>

Fail ==
    /\ Running
    /\ Fallible(Cur)
    /\ faulty \/ (page.settled /\ ~Ready(Cur))
    /\ failures' = Append(failures, pc)
    /\ IF Cur.catch > 0
       THEN pc' = pc + Cur.catch /\ status' = "running"
       ELSE pc' = pc /\ status' = "aborted"
    /\ UNCHANGED << script, browser, listener, page, session, shots, out,
                    emitted, log, counts, appVars, envVars >>

\* The application renders the data it fetched for the current view.
Render ==
    /\ status = "running"
    /\ browser = "open"
    /\ ~page.settled
    /\ page' = [page EXCEPT !.settled = TRUE, !.shown = Snapshot]
    /\ UNCHANGED << scriptVars, session, emitted, appVars, envVars >>

\* The page writes a console message; a registered listener prints it.
Emit ==
    /\ status = "running"
    /\ browser = "open"
    /\ page.view # "about:blank"
    /\ emitted < MaxConsole
    /\ emitted' = emitted + 1
    /\ out' = [out EXCEPT !.console = IF listener THEN @ + 1 ELSE @]
    /\ UNCHANGED << script, pc, status, browser, listener, page, session, shots,
                    failures, log, counts, appVars, envVars >>

\* ------------------------------------------------------- the specification

StrayBatch == "DELETE_TEST_.123"

Stock(n, name) == [i \in 1..n |-> name]

Init ==
    /\ script \in Scripts
    /\ pc = 1
    /\ status = "running"
    /\ browser = "none"
    /\ listener = FALSE
    /\ page = BlankPage
    /\ session = "none"
    /\ shots = {}
    /\ out = [errors |-> 0, console |-> 0]
    /\ emitted = 0
    /\ failures = <<>>
    /\ log = <<>>
    /\ counts = <<>>
    /\ \E n \in 0..MaxMedicines : medicines = Stock(n, "Paracetamol")
    /\ \E n \in 0..MaxSuppliers : suppliers = Stock(n, "Acme Pharma")
    /\ batches \in {{}, {StrayBatch}}
    /\ batches # {} => Len(medicines) > 0
    /\ appointments \in 0..MaxAppointments
    /\ vitalsDone = 0
    /\ created = <<>>
    /\ faulty \in BOOLEAN
    /\ titleStyle \in {"literal", "punctuated"}

Next ==
    \/ Launch
    \/ NewPage
    \/ OnConsole
    \/ Goto
    \/ WaitLoad
    \/ Screenshot
    \/ Fill
    \/ Click
    \/ WaitUrl
    \/ WaitText
    \/ WaitGone
    \/ IfCount
    \/ SelectIndex
    \/ ClickTitle
    \/ PrintError
    \/ Close
    \/ Fail
    \/ Render
    \/ Emit

Spec == Init /\ [][Next]_vars

\* ------------------------------------------------------------ properties

\* The statement of the clinic-flow verifier that stands on a source line.
ClinicPc(line) ==
    CHOOSE i \in 1..Len(ClinicProgram) : ClinicProgram[i].line = line

Clinic == script = "clinic"

Logged(ev, a) == <<ev, a>> \in Range(log)

At(e) == {i \in 1..Len(log) : log[i] = e}

\* Event e1 succeeded, and later e2, and later e3.
InOrder(e1, e2, e3) ==
    \E k \in At(e3) : \E j \in At(e2) : j < k /\ \E i \in At(e1) : i < j

Failed(i) == i \in Range(failures)

Observed(locator) == {c[2] : c \in {d \in Range(counts) : d[1] = locator}}

Made(kind) == SelectSeq(created, LAMBDA e : e[1] = kind)

\* C1: a failure of the post-login wait for the clinic-dashboard URL never
\* leaves run(): the handler runs (error line, after_login_attempt.png) and
\* the run goes on with the navigation to the appointments view; once the
\* run is past the try statement, the diagnostic screenshot and the error
\* line exist if and only if that wait failed.
C1_LenientDashboardWait ==
    Clinic =>
      /\ status = "aborted" => failures[Len(failures)] # ClinicPc(20)
      /\ Failed(ClinicPc(20)) /\ status = "running" => pc > ClinicPc(20)
      /\ pc >= ClinicPc(26) =>
            /\ "after_login_attempt.png" \in shots <=> Failed(ClinicPc(20))
            /\ out.errors = 1 <=> Failed(ClinicPc(20))
            /\ Logged("url", "/clinic-dashboard") <=> ~Failed(ClinicPc(20))

C1_Witness ==
    /\ Clinic
    /\ Failed(ClinicPc(20))
    /\ "after_login_attempt.png" \in shots
    /\ Logged("goto", "/appointments")

\* C2: in both scripts a call that raises anywhere but in the post-login
\* dashboard wait of the clinic-flow verifier ends the run there: the run is
\* aborted with the browser not closed, and from then on no statement runs,
\* no screenshot is written, nothing is filled, clicked or closed.
C2_OtherFailuresAbort ==
    [][ /\ (failures' # failures /\ ~(Clinic /\ pc = ClinicPc(20))) =>
              (status' = "aborted" /\ browser' # "closed" /\ pc' = pc)
        /\ status = "aborted" =>
              (/\ status' = "aborted"
               /\ UNCHANGED << pc, browser, shots, log, page, out, appVars >>)
        /\ (status' = "done" \/ browser' = "closed") =>
              Range(failures') \subseteq (IF Clinic THEN {ClinicPc(20)} ELSE {})
      ]_vars

C2_Witness ==
    /\ Clinic
    /\ status = "aborted"
    /\ "vitals_added.png" \in shots
    /\ browser = "open"

\* C3: against an application that titles a batch's delete control
\* 'Delete batch <batch number>', the locator of step 11 resolves to the
\* delete control of the batch created in this run, and to nothing else.
C3_DeleteLocatorFindsCreatedBatch ==
    (/\ Clinic
     /\ ~faulty
     /\ titleStyle = "literal"
     /\ status = "running"
     /\ pc = ClinicPc(87)
     /\ page.settled) =>
        Resolve(page, Cur.a) = {BatchNumber}

\* C4: against an application that behaves correctly and has an appointment
\* to add vitals to, a run of the clinic-flow verifier ends having added the
\* batch, deleted it, captured batch_deleted.png and closed the browser.
C4_CorrectApplicationRunCompletes ==
    (/\ Clinic
     /\ ~faulty
     /\ titleStyle = "literal"
     /\ appointments >= 1
     /\ status # "running") =>
        /\ status = "done"
        /\ <<"batch", BatchNumber>> \in Range(created)
        /\ BatchNumber \notin batches
        /\ "batch_deleted.png" \in shots
        /\ browser = "closed"

\* C5, as stated: in either script every console message the page emits is
\* printed on the script's output.
C5_BothScriptsLogConsole == out.console = emitted

\* C5, amended: the clinic-flow verifier prints every console message the
\* page emits; the super-admin verifier registers no console listener and
\* prints none.
C5_OnlyClinicLogsConsole ==
    /\ Clinic => out.console = emitted
    /\ ~Clinic => out.console = 0 /\ ~listener

C5_Witness == Clinic /\ emitted >= 1 /\ out.console >= 1 /\ status = "done"

\* C6: if the check of step 7 counted zero 'Manage Stock' buttons, the run
\* creates exactly one medicine, named 'Test Medicine', through one pass of
\* the creation branch, and has done so when stock management is opened;
\* if the check counted at least one, the branch is not entered and the run
\* creates no medicine.
C6_MedicineBranchOnce ==
    (Clinic /\ Observed("Manage Stock") # {}) =>
        IF Observed("Manage Stock") = {0}
        THEN /\ Len(Made("medicine")) <= 1
             /\ Len(SelectSeq(log, LAMBDA e : e = <<"click", "Add New Medicine">>)) <= 1
             /\ pc >= ClinicPc(52) =>
                   /\ Made("medicine") = << <<"medicine", "Test Medicine">> >>
                   /\ Logged("saw", "Test Medicine")
        ELSE /\ Made("medicine") = <<>>
             /\ ~Logged("click", "Add New Medicine")

C6_Witness ==
    /\ Clinic
    /\ Observed("Manage Stock") = {0}
    /\ Logged("click", "Manage Stock")
    /\ Made("medicine") = << <<"medicine", "Test Medicine">> >>

\* C7: once the supplier has been selected by index 1, the supplier control
\* of the open batch form offers a real option; and if the check of step 9
\* counted at most the placeholder, the supplier branch ran first: 'Test
\* Supplier' was created and seen, stock management was reopened, and the
\* control offers that supplier.
C7_SupplierOptionPresent ==
    (Clinic /\ Logged("select", "Supplier")) =>
        /\ page.dialog \in {"stock", "confirm"} => Len(page.shown.suppliers) >= 1
        /\ (\E n \in Observed("supplierId option") : n <= 1) =>
              /\ <<"supplier", "Test Supplier">> \in Range(created)
              /\ InOrder(<<"saw", "Test Supplier">>, <<"click", "Manage Stock">>,
                         <<"select", "Supplier">>)
              /\ "Test Supplier" \in Range(suppliers)

C7_Witness ==
    /\ Clinic
    /\ Logged("select", "Supplier")
    /\ Observed("supplierId option") = {1}
    /\ page.dialog = "stock"
    /\ "Test Supplier" \in Range(page.shown.suppliers)

\* C8: a success screenshot is taken only after its checkpoint was observed
\* in the same run, and the page still shows it when the screenshot is
\* taken: vitals_added.png after 'Vitals Added' rendered, batch_deleted.png
\* after a confirmed deletion and the page text no longer containing
\* 'DELETE_TEST_123', superadmin_dashboard.png after the URL was the
\* super-admin dashboard and 'Total Clinics' rendered.
ShotAfter(path, e1, e2) ==
    \A k \in At(<<"shot", path>>) :
        \E j \in At(e2) : j < k /\ \E i \in At(e1) : i < j

Shooting(path) ==
    Running /\ Cur.op = "screenshot" /\ Cur.a = path

C8_ScreenshotAfterCheckpoint ==
    /\ ShotAfter("vitals_added.png", <<"click", "Save">>, <<"saw", "Vitals Added">>)
    /\ ShotAfter("batch_deleted.png", <<"click", "Confirm">>, <<"gone", BatchNumber>>)
    /\ ShotAfter("superadmin_dashboard.png", <<"url", "/superadmin/dashboard">>,
                 <<"saw", "Total Clinics">>)
    /\ Shooting("vitals_added.png") => "Vitals Added" \in PageTexts(page)
    /\ Shooting("batch_deleted.png") =>
          ~ \E x \in PageTexts(page) : Includes(x, BatchNumber)
    /\ Shooting("superadmin_dashboard.png") =>
          page.view = "/superadmin/dashboard" /\ "Total Clinics" \in PageTexts(page)

C8_Witness ==
    /\ Clinic
    /\ "vitals_added.png" \in shots
    /\ "batch_deleted.png" \in shots
    /\ <<"batch", BatchNumber>> \in Range(created)

\* C9: whenever 'Add Batch' is clicked, on either path through step 9, the
\* form belongs to a stock-management dialog opened after the last page
\* navigation and its Batch Number field holds 'DELETE_TEST_123'; and a
\* batch field other than the batch number is only ever filled or selected
\* in a form whose Batch Number field already holds it.
StockField(ins) ==
    /\ ins.op \in {"fill", "select_index"}
    /\ ins.line >= 76
    /\ ins.line <= 81

\* The index in the log of the last event satisfying Test, 0 when none.
Last(Test(_)) ==
    LET is == {i \in 1..Len(log) : Test(log[i])}
    IN  IF is = {} THEN 0 ELSE CHOOSE i \in is : \A j \in is : j <= i

LastGoto == Last(LAMBDA e : e[1] = "goto")

LastOpen == Last(LAMBDA e : e = <<"click", "Manage Stock">>)

LastBatchNumber == Last(LAMBDA e : e = <<"fill", "Batch Number">>)

C9_BatchFormReestablished ==
    [][ (/\ Clinic
         /\ Running
         /\ log' # log
         /\ (Cur.op = "click" /\ Cur.a = "Add Batch") \/ StockField(Cur)) =>
            /\ page.dialog = "stock"
            /\ page.form["Batch Number"] = BatchNumber
            /\ LastGoto < LastOpen
            /\ LastOpen < LastBatchNumber
      ]_vars

C9_Witness ==
    /\ Clinic
    /\ Logged("goto", "/suppliers")
    /\ Logged("click", "Add Batch")
    /\ <<"batch", BatchNumber>> \in Range(created)

\* C10: the medicine branch is entered only if the application holds no
\* medicine, the supplier branch only if it holds no supplier.
C10_BranchesOnlyWhenAbsent ==
    (Clinic /\ ~faulty) =>
        /\ Logged("click", "Add New Medicine") =>
              Len(medicines) = Len(Made("medicine"))
        /\ Logged("goto", "/suppliers") =>
              Len(suppliers) = Len(Made("supplier"))

=============================================================================
